---- MODULE Spec2Model ----
(***************************************************************************)
(* Model of the Deep Visibility hash hunt of the SentinelOne MCP server:   *)
(* handleHashLookup (src/src/tools/hash.ts) driving createDVQuery,         *)
(* getDVQueryStatus and getDVEvents through request (the REST client,      *)
(* src/unnamed/part_000).                                                  *)
(*                                                                         *)
(* Strings are sequences of tokens: every decimal digit is a token of its  *)
(* own, fixed pieces of text without digits are one token each.            *)
(***************************************************************************)
EXTENDS Integers, Sequences, FiniteSets, TLC

\* ------------------------------------------------------------------ bounds
\* Largest number of event records a result page carries in the model.
MaxEvents == 2

\* ------------------------------------------------------- program constants
TIMEOUT_MS == 30000

maxCreateRetries == 6

maxAttempts == 30

maxFetchRetries == 5

CreateRetryDelayMs == 3000

PollIntervalMs == 1000

FetchRetryDelayMs == 2000

\* ------------------------------------------------------------------ values
\* JavaScript's undefined / null, as the value of a local or of a field.
Undefined == "undefined"

\* queryIds the platform hands out.
QueryIds == {"q1", "q2"}

\* DVQueryStatus.status
Statuses == {"RUNNING", "FINISHED", "FAILED", "CANCELED"}

\* HTTP statuses of a response that is not ok.
HttpErrorCodes == {409, 500}

\* The token standing for a credential inside a text.
Secret == "K"

Redacted == "[REDACTED]"

\* Response bodies of a response that is not ok.
Bodies == { <<>>, <<"i", "d", " ", "4", "0", "9", Secret>> }

\* Messages of the errors fetch rejects with (no connection, bad JSON).
TransportTexts == { <<"fetch failed ", Secret>> }

\* The inputs of handleHashLookup: the hash's length and whether it is hex.
Hashes == [len : {10, 40, 64}, hex : BOOLEAN]

\* ----------------------------------------------------------------- strings
DigitChar(d) == <<"0", "1", "2", "3", "4", "5", "6", "7", "8", "9">>[d + 1]

RECURSIVE Digits(_)
\* String(n) of a number n >= 0.
Digits(n) == IF n < 10 THEN <<DigitChar(n)>>
             ELSE Digits(n \div 10) \o <<DigitChar(n % 10)>>

\* s.includes(t)
Includes(s, t) ==
    \E i \in 1..(Len(s) - Len(t) + 1) : SubSeq(s, i, i + Len(t) - 1) = t

StatusText(code) == IF code = 409 THEN "Conflict" ELSE "Internal Server Error"

\* `HTTP ${response.status}: ${response.statusText} - ${errorBody}`
HttpErrorMessage(code, body) ==
    <<"HTTP ">> \o Digits(code) \o <<": ", StatusText(code), " - ">> \o body

\* `Request timeout after ${TIMEOUT_MS}ms`
TimeoutMessage == <<"Request timeout after ">> \o Digits(TIMEOUT_MS) \o <<"ms">>

\* The message of an error with its sensitive details stripped; the status
\* code and the rest of the text are kept.
sanitizeError(msg) ==
    [i \in 1..Len(msg) |-> IF msg[i] = Secret THEN Redacted ELSE msg[i]]

\* Reading .status of an undefined status object.
TypeErrorMessage == <<"Cannot read properties of undefined (reading 'status')">>

\* ---------------------------------------------------------------- records
NoRet == [ok |-> FALSE, val |-> "none", len |-> 0, kind |-> "none", code |-> 0, msg |-> <<>>]

OkRet(val, len) == [ok |-> TRUE, val |-> val, len |-> len, kind |-> "ok", code |-> 0, msg |-> <<>>]

ErrRet(kind, code, msg) == [ok |-> FALSE, val |-> "none", len |-> 0, kind |-> kind, code |-> code, msg |-> msg]

NoEvents == [defined |-> FALSE, len |-> 0]

NoOutcome == [kind |-> "none", isError |-> FALSE, queryId |-> "none", msg |-> <<>>, n |-> 0]

Outcome(kind, isError, queryId, msg, n) ==
    [kind |-> kind, isError |-> isError, queryId |-> queryId, msg |-> msg, n |-> n]

RequestTimer == [kind |-> "request", ms |-> TIMEOUT_MS]

SleepTimer(ms) == [kind |-> "sleep", ms |-> ms]

Delays == {CreateRetryDelayMs, PollIntervalMs, FetchRetryDelayMs}

\* A call (with the queryId it passes) or a wait (with its delay).
Ev(op, ms, id) == [op |-> op, ms |-> ms, id |-> id]

VARIABLES
    pc,             \* where handleHashLookup stands
    params,         \* its argument
    createAttempts, \* hash.ts:63
    result,         \* hash.ts:62, the queryId of the DVQueryResponse or Undefined
    attempts,       \* hash.ts:98
    status,         \* hash.ts:100, status.status
    fetchAttempts,  \* hash.ts:134
    events,         \* hash.ts:133
    outcome,        \* what handleHashLookup returned
    rpc,            \* where the request call in flight stands
    rret,           \* what the request call in flight returns or throws
    timers,         \* the timers that are armed and have not fired
    calls,          \* history: executor calls started in this invocation
    waits,          \* history: fixed waits started in this invocation, by delay
    prev,           \* history: the last call or wait started
    createdId,      \* history: the data of the successful init-query response
    busyOnly,       \* history: every failed creation call failed with HTTP 409
    fetched,        \* history: the successful events response
    notReadyOnly,   \* history: every failed events call failed with HTTP 409
    runningSeen,    \* history: number of RUNNING status responses
    firstTerminalAt \* history: index of the first non-RUNNING status response

vars == <<pc, params, createAttempts, result, attempts, status, fetchAttempts,
          events, outcome, rpc, rret, timers, calls, waits, prev, createdId,
          busyOnly, fetched, notReadyOnly, runningSeen, firstTerminalAt>>

locals == <<createAttempts, result, attempts, status, fetchAttempts, events>>

observed == <<createdId, busyOnly, fetched, notReadyOnly, runningSeen, firstTerminalAt>>

history == <<calls, waits, prev, observed>>

NoCalls == [create |-> 0, status |-> 0, events |-> 0]

NoWaits == [ms \in Delays |-> 0]

NoFetched == [val |-> "none", len |-> 0]

Init ==
    /\ pc = "idle"
    /\ params = [len |-> 0, hex |-> FALSE]
    /\ createAttempts = 0
    /\ result = Undefined
    /\ attempts = 0
    /\ status = "RUNNING"
    /\ fetchAttempts = 0
    /\ events = NoEvents
    /\ outcome = NoOutcome
    /\ rpc = "idle"
    /\ rret = NoRet
    /\ timers = {}
    /\ calls = NoCalls
    /\ waits = NoWaits
    /\ prev = Ev("none", 0, "none")
    /\ createdId = "none"
    /\ busyOnly = TRUE
    /\ fetched = NoFetched
    /\ notReadyOnly = TRUE
    /\ runningSeen = 0
    /\ firstTerminalAt = 0

\* ------------------------------------------------------------ the executor
setTimeout(ts, t) == ts \cup {t}

clearTimeout_never(ts, t) == ts

clearTimeout(ts, t) == ts \ {t}

\* request, up to the await of fetch: the timeout timer is armed.
RequestStart(ts) ==
    /\ rpc = "idle"
    /\ rpc' = "fetching"
    /\ rret' = NoRet
    /\ timers' = setTimeout(ts, RequestTimer)

\* request, from its finally block to its caller.
RequestExit(ts) ==
    /\ rpc = "settled"
    /\ rpc' = "idle"
    /\ rret' = NoRet
    /\ timers' = clearTimeout(ts, RequestTimer)

\* What the three routes answer with a 2xx status.
Responses ==
    CASE pc = "createAwait" -> {OkRet(v, 0) : v \in QueryIds \cup {Undefined}}
      [] pc = "pollAwait"   -> {OkRet(v, 0) : v \in Statuses \cup {Undefined}}
      [] pc = "fetchAwait"  -> {OkRet("null", 0)} \cup {OkRet("page", n) : n \in 0..MaxEvents}
      [] OTHER              -> {}

\* The history of what the platform answered.
Observe(ret) ==
    /\ createdId' = IF pc = "createAwait" /\ ret.ok THEN ret.val ELSE createdId
    /\ busyOnly' = IF pc = "createAwait" /\ ~ret.ok
                   THEN busyOnly /\ ret.kind = "http" /\ ret.code = 409
                   ELSE busyOnly
    /\ fetched' = IF pc = "fetchAwait" /\ ret.ok
                  THEN [val |-> ret.val, len |-> ret.len]
                  ELSE fetched
    /\ runningSeen' = IF pc = "pollAwait" /\ ret.ok /\ ret.val = "RUNNING"
                      THEN runningSeen + 1
                      ELSE runningSeen
    /\ notReadyOnly' = IF pc = "fetchAwait" /\ ~ret.ok
                       THEN notReadyOnly /\ ret.kind = "http" /\ ret.code = 409
                       ELSE notReadyOnly
    /\ firstTerminalAt' = IF /\ pc = "pollAwait"
                             /\ ret.ok
                             /\ ret.val \in Statuses \ {"RUNNING"}
                             /\ firstTerminalAt = 0
                          THEN calls.status
                          ELSE firstTerminalAt
    /\ UNCHANGED <<calls, waits, prev>>

Settle(ret) ==
    /\ rpc = "fetching"
    /\ rpc' = "settled"
    /\ rret' = ret
    /\ Observe(ret)
    /\ UNCHANGED <<pc, params, locals, outcome>>

\* fetch resolves with a 2xx response and its body parses.
requestOk ==
    /\ \E ret \in Responses : Settle(ret)
    /\ UNCHANGED timers

\* fetch resolves with a response that is not ok.
requestHttpError ==
    /\ \E code \in HttpErrorCodes, body \in Bodies :
          Settle(ErrRet("http", code, sanitizeError(HttpErrorMessage(code, body))))
    /\ UNCHANGED timers

\* fetch rejects, or the body is no JSON.
requestReject ==
    /\ \E text \in TransportTexts : Settle(ErrRet("other", 0, sanitizeError(text)))
    /\ UNCHANGED timers

\* The timeout timer fires: the controller aborts the fetch.
requestAbort ==
    /\ RequestTimer \in timers
    /\ timers' = timers \ {RequestTimer}
    /\ Settle(ErrRet("timeout", 0, TimeoutMessage))

\* ------------------------------------------------------- handleHashLookup
ErrorOutcome_rethrow(msg) == Outcome("THROWN", TRUE, "none", msg, 0)

\* catch (error) { return { ..., isError: true } }
ErrorOutcome(msg) == Outcome("ERROR", TRUE, "none", <<"Error hunting hash: ">> \o msg, 0)

Return(o) ==
    /\ pc' = "done"
    /\ outcome' = o

Started(op, id) ==
    /\ calls' = [calls EXCEPT ![op] = @ + 1]
    /\ prev' = Ev(op, 0, id)
    /\ UNCHANGED <<waits, observed>>

\* await new Promise((resolve) => setTimeout(resolve, ms))
Sleep(ts, ms) ==
    /\ timers' = setTimeout(ts, SleepTimer(ms))
    /\ waits' = [waits EXCEPT ![ms] = @ + 1]
    /\ prev' = Ev("wait", ms, "none")
    /\ UNCHANGED <<calls, observed>>

\* The timer of a wait fires and the wait is over.
Wake(ms) ==
    /\ SleepTimer(ms) \in timers
    /\ timers' = timers \ {SleepTimer(ms)}

\* Entry, the validation of the hash, and the locals of the creation loop.
handleHashLookup ==
    /\ pc \in {"idle", "done"}
    /\ rpc = "idle"
    /\ \E h \in Hashes :
        /\ params' = h
        /\ IF h.len # 40 /\ h.len # 64
           THEN Return(Outcome("INVALID_LENGTH", TRUE, "none", <<>>, 0))
           ELSE IF ~h.hex
           THEN Return(Outcome("INVALID_HEX", TRUE, "none", <<>>, 0))
           ELSE /\ pc' = "create"
                /\ outcome' = NoOutcome
    /\ createAttempts' = 0
    /\ result' = Undefined
    /\ attempts' = 0
    /\ status' = "RUNNING"
    /\ fetchAttempts' = 0
    /\ events' = NoEvents
    /\ calls' = NoCalls
    /\ waits' = NoWaits
    /\ prev' = Ev("none", 0, "none")
    /\ createdId' = "none"
    /\ busyOnly' = TRUE
    /\ fetched' = NoFetched
    /\ notReadyOnly' = TRUE
    /\ runningSeen' = 0
    /\ firstTerminalAt' = 0
    /\ UNCHANGED <<rpc, rret, timers>>

\* if (!result) ..., then the locals of the poll loop and its first test.
AfterCreate(res) ==
    IF res = Undefined
    THEN /\ Return(Outcome("SLOT_BUSY", TRUE, "none", <<>>, 0))
         /\ UNCHANGED <<attempts, status>>
    ELSE /\ attempts' = 0
         /\ status' = "RUNNING"
         /\ pc' = IF 0 < maxAttempts THEN "poll" ELSE "done"
         /\ outcome' = IF 0 < maxAttempts THEN outcome
                       ELSE Outcome("TIMED_OUT", FALSE, res, <<>>, 0)

\* result = await createDVQuery(...): the call.
CreateCall ==
    /\ pc = "create"
    /\ RequestStart(timers)
    /\ pc' = "createAwait"
    /\ Started("create", "none")
    /\ UNCHANGED <<params, locals, outcome>>

\* result = await createDVQuery(...); break;
CreateReturn ==
    /\ pc = "createAwait"
    /\ rret.ok
    /\ RequestExit(timers)
    /\ result' = rret.val
    /\ AfterCreate(rret.val)
    /\ UNCHANGED <<params, createAttempts, fetchAttempts, events, history>>

CreateShouldRetry_early(msg, n) ==
    Includes(msg, <<"4", "0", "9">>) /\ n < maxCreateRetries - 2

\* msg.includes("409") && createAttempts < maxCreateRetries - 1
CreateShouldRetry(msg, n) ==
    Includes(msg, <<"4", "0", "9">>) /\ n < maxCreateRetries - 1

\* catch (createError) { ... }
CreateCatch ==
    /\ pc = "createAwait"
    /\ ~rret.ok
    /\ rpc = "settled"
    /\ rpc' = "idle"
    /\ rret' = NoRet
    /\ IF CreateShouldRetry(rret.msg, createAttempts)
       THEN /\ createAttempts' = createAttempts + 1
            /\ Sleep(clearTimeout(timers, RequestTimer), CreateRetryDelayMs)
            /\ pc' = "createWait"
            /\ UNCHANGED outcome
       ELSE /\ Return(ErrorOutcome(rret.msg))
            /\ timers' = clearTimeout(timers, RequestTimer)
            /\ UNCHANGED <<createAttempts, history>>
    /\ UNCHANGED <<params, result, attempts, status, fetchAttempts, events>>

\* The retry wait is over: continue, and the test of the creation loop.
CreateWake ==
    /\ pc = "createWait"
    /\ Wake(CreateRetryDelayMs)
    /\ IF createAttempts < maxCreateRetries
       THEN /\ pc' = "create"
            /\ UNCHANGED <<outcome, attempts, status>>
       ELSE AfterCreate(result)
    /\ UNCHANGED <<params, createAttempts, result, fetchAttempts, events, rpc, rret, history>>

PollSleep_requestFirst ==
    /\ pc = "poll"
    /\ RequestStart(timers)
    /\ pc' = "pollAwait"
    /\ Started("status", result)
    /\ UNCHANGED <<params, locals, outcome>>

\* await new Promise((resolve) => setTimeout(resolve, 1000))
PollSleep ==
    /\ pc = "poll"
    /\ Sleep(timers, PollIntervalMs)
    /\ pc' = "pollWait"
    /\ UNCHANGED <<params, locals, outcome, rpc, rret>>

\* status = await getDVQueryStatus(result.queryId): the call.
PollCall ==
    /\ pc = "pollWait"
    /\ SleepTimer(PollIntervalMs) \in timers
    /\ RequestStart(timers \ {SleepTimer(PollIntervalMs)})
    /\ pc' = "pollAwait"
    /\ Started("status", result)
    /\ UNCHANGED <<params, locals, outcome>>

PollBreak_onlyFinished(st) == st = "FINISHED"

\* if (status.status !== "RUNNING") break;
PollBreak(st) == st # "RUNNING"

PollLoopTest_inclusive(n) == n <= maxAttempts

\* while (attempts < maxAttempts)
PollLoopTest(n) == n < maxAttempts

\* The statements after the poll loop, to the first test of the fetch loop.
AfterPoll(st) ==
    IF st = "FAILED"
    THEN /\ Return(Outcome("FAILED", TRUE, "none", <<>>, 0))
         /\ UNCHANGED <<fetchAttempts, events>>
    ELSE IF st = "RUNNING"
    THEN /\ Return(Outcome("TIMED_OUT", FALSE, result, <<>>, 0))
         /\ UNCHANGED <<fetchAttempts, events>>
    ELSE /\ fetchAttempts' = 0
         /\ events' = NoEvents
         /\ pc' = "fetch"
         /\ UNCHANGED outcome

\* status = await getDVQueryStatus(...); the break or attempts++, the loop test.
PollReturn ==
    /\ pc = "pollAwait"
    /\ rret.ok
    /\ rret.val # Undefined
    /\ RequestExit(timers)
    /\ status' = rret.val
    /\ IF PollBreak(rret.val)
       THEN /\ AfterPoll(rret.val)
            /\ UNCHANGED attempts
       ELSE /\ attempts' = attempts + 1
            /\ IF PollLoopTest(attempts + 1)
               THEN /\ pc' = "poll"
                    /\ UNCHANGED <<outcome, fetchAttempts, events>>
               ELSE AfterPoll(rret.val)
    /\ UNCHANGED <<params, createAttempts, result, history>>

\* getDVQueryStatus throws, or status.status throws on a response without data.
PollThrow ==
    /\ pc = "pollAwait"
    /\ ~rret.ok \/ rret.val = Undefined
    /\ RequestExit(timers)
    /\ status' = IF rret.ok THEN Undefined ELSE status
    /\ Return(ErrorOutcome(IF rret.ok THEN TypeErrorMessage ELSE rret.msg))
    /\ UNCHANGED <<params, createAttempts, result, attempts, fetchAttempts, events, history>>

AfterFetch_emptyIsMissing(ev) ==
    IF ~ev.defined \/ ev.len = 0
    THEN Return(Outcome("FETCH_EXHAUSTED", FALSE, result, <<>>, 0))
    ELSE Return(Outcome("RESULTS", FALSE, "none", <<>>, ev.len))

\* if (!events) ..., if (!events.data?.length) ..., the summary.
AfterFetch(ev) ==
    IF ~ev.defined
    THEN Return(Outcome("FETCH_EXHAUSTED", FALSE, result, <<>>, 0))
    ELSE IF ev.len = 0
    THEN Return(Outcome("NO_ACTIVITY", FALSE, "none", <<>>, 0))
    ELSE Return(Outcome("RESULTS", FALSE, "none", <<>>, ev.len))

\* events = await getDVEvents(...): the call.
FetchCall ==
    /\ pc = "fetch"
    /\ RequestStart(timers)
    /\ pc' = "fetchAwait"
    /\ Started("events", result)
    /\ UNCHANGED <<params, locals, outcome>>

\* events = await getDVEvents(...); break;
FetchReturn ==
    /\ pc = "fetchAwait"
    /\ rret.ok
    /\ RequestExit(timers)
    /\ events' = [defined |-> rret.val # "null", len |-> rret.len]
    /\ AfterFetch([defined |-> rret.val # "null", len |-> rret.len])
    /\ UNCHANGED <<params, createAttempts, result, attempts, status, fetchAttempts, history>>

\* msg.includes("409") && fetchAttempts < maxFetchRetries - 1
FetchShouldRetry(msg, n) ==
    Includes(msg, <<"4", "0", "9">>) /\ n < maxFetchRetries - 1

\* catch (fetchError) { ... }
FetchCatch ==
    /\ pc = "fetchAwait"
    /\ ~rret.ok
    /\ rpc = "settled"
    /\ rpc' = "idle"
    /\ rret' = NoRet
    /\ IF FetchShouldRetry(rret.msg, fetchAttempts)
       THEN /\ fetchAttempts' = fetchAttempts + 1
            /\ Sleep(clearTimeout(timers, RequestTimer), FetchRetryDelayMs)
            /\ pc' = "fetchWait"
            /\ UNCHANGED outcome
       ELSE /\ Return(ErrorOutcome(rret.msg))
            /\ timers' = clearTimeout(timers, RequestTimer)
            /\ UNCHANGED <<fetchAttempts, history>>
    /\ UNCHANGED <<params, createAttempts, result, attempts, status, events>>

\* The retry wait is over: continue, and the test of the fetch loop.
FetchWake ==
    /\ pc = "fetchWait"
    /\ Wake(FetchRetryDelayMs)
    /\ IF fetchAttempts < maxFetchRetries
       THEN /\ pc' = "fetch"
            /\ UNCHANGED outcome
       ELSE AfterFetch(events)
    /\ UNCHANGED <<params, locals, rpc, rret, history>>

Next ==
    \/ handleHashLookup
    \/ requestOk
    \/ requestHttpError
    \/ requestReject
    \/ requestAbort
    \/ CreateCall
    \/ CreateReturn
    \/ CreateCatch
    \/ CreateWake
    \/ PollSleep
    \/ PollCall
    \/ PollReturn
    \/ PollThrow
    \/ FetchCall
    \/ FetchReturn
    \/ FetchCatch
    \/ FetchWake

Spec == Init /\ [][Next]_vars

\* Every step but the entry of a new invocation: the continuations the event
\* loop runs, the timers that fire and the fetch calls that settle.
Progress ==
    \/ requestOk \/ requestHttpError \/ requestReject \/ requestAbort
    \/ CreateCall \/ CreateReturn \/ CreateCatch \/ CreateWake
    \/ PollSleep \/ PollCall \/ PollReturn \/ PollThrow
    \/ FetchCall \/ FetchReturn \/ FetchCatch \/ FetchWake

\* The program when every executor call and every fixed wait completes.
FairSpec == Spec /\ WF_vars(Progress)

\* ------------------------------------------------------------------ claims
InPoll == pc \in {"poll", "pollWait", "pollAwait"}

InFetch == pc \in {"fetch", "fetchAwait", "fetchWait"}

\* The error a settled call throws is an HTTP error with the retryable code
\* of the phase that made the call (409 for creation and fetch, none for polling).
PhaseRetryable ==
    /\ pc \in {"createAwait", "fetchAwait"}
    /\ rret.kind = "http"
    /\ rret.code = 409

\* C1: when all maxCreateRetries creation calls failed with HTTP 409, the
\* invocation ends in the SLOT_BUSY outcome and not in the error outcome.
C1_SlotBusyExhausted ==
    (/\ pc = "done"
     /\ calls.create = maxCreateRetries
     /\ busyOnly
     /\ createdId = "none")
    => (outcome.kind = "SLOT_BUSY" /\ outcome.kind # "ERROR")

\* C2: when FINISHED was observed and all maxFetchRetries events calls failed
\* with HTTP 409, the invocation ends in the FETCH_EXHAUSTED outcome with the
\* queryId creation returned, and that outcome is no error.
C2_FetchExhausted ==
    (/\ pc = "done"
     /\ status = "FINISHED"
     /\ calls.events = maxFetchRetries
     /\ notReadyOnly
     /\ fetched = NoFetched)
    => (/\ outcome.kind = "FETCH_EXHAUSTED"
        /\ outcome.queryId = createdId
        /\ ~outcome.isError)

\* C3: an invocation whose poll observed FAILED or CANCELED ends in the
\* terminal failure outcome without any events call, and an events call is
\* made only when the last observed status is FINISHED.
C3_RemoteFailureIsTerminal ==
    /\ (pc = "done" /\ status \in {"FAILED", "CANCELED"})
          => (outcome.kind = "FAILED" /\ calls.events = 0)
    /\ calls.events > 0 => status = "FINISHED"

\* The poll loop was left by its break or by its test.
PollingOver ==
    \/ InFetch
    \/ pc = "done" /\ outcome.kind \in {"FAILED", "TIMED_OUT", "FETCH_EXHAUSTED", "NO_ACTIVITY", "RESULTS"}
    \/ pc = "done" /\ calls.events > 0

\* C4: no status call follows a non-RUNNING response: the number of status
\* calls is the index of the first non-RUNNING response, or maxAttempts when
\* every response was RUNNING.
C4_PollCount ==
    /\ calls.status <= maxAttempts
    /\ firstTerminalAt # 0 => (calls.status = firstTerminalAt /\ runningSeen = firstTerminalAt - 1)
    /\ (PollingOver /\ firstTerminalAt = 0) => (calls.status = maxAttempts /\ runningSeen = maxAttempts)

C4_Witness ==
    /\ pc = "fetch"
    /\ firstTerminalAt = 3
    /\ calls.status = 3

\* C5: an error that is not an HTTP error with the phase's retryable code ends
\* the invocation at once with that error and without another call, whatever
\* its text.
C5_OtherErrorsAreFatal ==
    [][(rpc = "settled" /\ ~rret.ok /\ ~PhaseRetryable)
          => (/\ pc' = "done"
              /\ outcome' = ErrorOutcome(rret.msg)
              /\ calls' = calls)]_vars

\* C6: after maxAttempts RUNNING responses the invocation ends in TIMED_OUT
\* with the queryId creation returned, after exactly maxAttempts status calls
\* and no events call.
C6_PollTimeout ==
    runningSeen >= maxAttempts
    => (/\ calls.status = maxAttempts
        /\ calls.events = 0
        /\ \/ pc = "pollAwait" /\ rpc = "settled"
           \/ pc = "done" /\ outcome = Outcome("TIMED_OUT", FALSE, createdId, <<>>, 0))

C6_Witness ==
    /\ pc = "done"
    /\ runningSeen = maxAttempts
    /\ outcome.kind = "TIMED_OUT"
    /\ outcome.queryId = "q2"

\* C7, in the states: while every failed creation call failed with HTTP 409,
\* at most maxCreateRetries calls are made, none after the successful one, one
\* wait of CreateRetryDelayMs lies between a failed call and the next, and
\* polling runs with the queryId of the successful response.
C7_Counts ==
    busyOnly =>
        /\ calls.create <= maxCreateRetries
        /\ createdId # "none" =>
              (pc \notin {"create", "createWait"} /\ (pc = "createAwait" => rpc = "settled"))
        /\ pc = "create" =>
              /\ waits[CreateRetryDelayMs] = calls.create
              /\ calls.create > 0 => prev = Ev("wait", CreateRetryDelayMs, "none")
        /\ pc = "createAwait" => waits[CreateRetryDelayMs] = calls.create - 1
        /\ (createdId \in QueryIds /\ pc # "createAwait") =>
              /\ waits[CreateRetryDelayMs] = calls.create - 1
              /\ result = createdId
              /\ InPoll \/ InFetch \/ (pc = "done" /\ calls.status > 0)
              /\ pc = "pollAwait" => prev = Ev("status", 0, createdId)

\* C7, in the steps: a creation call that fails with HTTP 409 before the
\* last allowed call is followed by the wait, and a successful one by polling.
C7_Steps ==
    /\ (pc = "createAwait" /\ rpc = "settled" /\ PhaseRetryable /\ calls.create < maxCreateRetries)
          => (pc' = "createWait" /\ SleepTimer(CreateRetryDelayMs) \in timers')
    /\ (pc = "createAwait" /\ rpc = "settled" /\ rret.ok /\ rret.val \in QueryIds)
          => (pc' = "poll" /\ result' = rret.val)

\* C7: k < maxCreateRetries creation calls failing with HTTP 409 and then a
\* successful one make k + 1 creation calls, with one fixed delay between a
\* failed call and the next, and polling proceeds with the returned queryId.
C7_BusyThenSuccess == []C7_Counts /\ [][C7_Steps]_vars

C7_Witness ==
    /\ pc = "pollAwait"
    /\ busyOnly
    /\ calls.create = maxCreateRetries
    /\ waits[CreateRetryDelayMs] = maxCreateRetries - 1
    /\ result = "q2"

\* C8: no timeout timer of a request call that has returned or thrown is
\* still pending.
C8_TimerCancelled == rpc = "idle" => RequestTimer \notin timers

C8_Witness ==
    /\ pc = "poll"
    /\ calls.create = 1
    /\ rpc = "idle"
    /\ timers = {}

\* C9: a successful events response with an empty list ends the invocation
\* in an outcome that is no error and is neither FETCH_EXHAUSTED nor ERROR.
C9_EmptyResult ==
    (pc = "done" /\ fetched = [val |-> "page", len |-> 0])
    => (/\ outcome.kind = "NO_ACTIVITY"
        /\ ~outcome.isError
        /\ outcome.kind \notin {"FETCH_EXHAUSTED", "ERROR"})

C9_Witness ==
    /\ pc = "done"
    /\ fetched = [val |-> "page", len |-> 0]
    /\ outcome.kind = "NO_ACTIVITY"

\* C10 as stated: in an iteration the status request comes first and the
\* fixed wait after it, so no wait has started before the request of its
\* iteration.
C10_RequestThenWait == waits[PollIntervalMs] <= calls.status

\* C10 as amended: in an iteration the fixed wait comes first and the status
\* request after it; an iteration starts only when the request of the one
\* before has returned, and no wait follows the last status call.
C10_WaitThenRequest ==
    /\ waits[PollIntervalMs] = calls.status + (IF pc = "pollWait" THEN 1 ELSE 0)
    /\ pc = "poll" => (rpc = "idle" /\ timers = {})
    /\ pc = "pollWait" => (rpc = "idle" /\ prev = Ev("wait", PollIntervalMs, "none"))
    /\ pc = "pollAwait" => (SleepTimer(PollIntervalMs) \notin timers /\ prev.op = "status")

C10_Witness ==
    /\ pc = "pollWait"
    /\ calls.status = 2
    /\ waits[PollIntervalMs] = 3

\* What handleHashLookup can return to its caller.
ReturnKinds ==
    {"INVALID_LENGTH", "INVALID_HEX", "SLOT_BUSY", "FAILED", "TIMED_OUT",
     "FETCH_EXHAUSTED", "NO_ACTIVITY", "RESULTS", "ERROR"}

Running == pc \notin {"idle", "done"}

\* C11, in the states: the call budgets, the phases, and one returned outcome
\* exactly when the invocation is over.
C11_Budgets ==
    /\ calls.create <= maxCreateRetries
    /\ calls.status <= maxAttempts
    /\ calls.events <= maxFetchRetries
    /\ pc \in {"create", "createAwait", "createWait"} => (calls.status = 0 /\ calls.events = 0)
    /\ InPoll => (calls.create >= 1 /\ calls.events = 0)
    /\ InFetch => (calls.create >= 1 /\ calls.status >= 1)
    /\ Running => outcome = NoOutcome
    /\ pc = "done" => outcome.kind \in ReturnKinds

\* C11, in the steps: no creation call after the first status call, no status
\* call after the first events call, and the outcome is set once.
C11_Order ==
    /\ calls'.create > calls.create => (calls.status = 0 /\ calls.events = 0)
    /\ calls'.status > calls.status => calls.events = 0
    /\ (Running /\ outcome' # outcome) => (pc' = "done" /\ outcome = NoOutcome)

\* C11: when every call and every wait completes, an invocation returns one
\* outcome and throws nothing, after at most maxCreateRetries creation calls,
\* maxAttempts status calls and maxFetchRetries events calls, in that order.
C11_Terminates ==
    /\ []C11_Budgets
    /\ [][C11_Order]_vars
    /\ Running ~> (pc = "done")

C11_Witness ==
    /\ pc = "done"
    /\ calls = [create |-> maxCreateRetries, status |-> maxAttempts, events |-> maxFetchRetries]
    /\ outcome.kind = "RESULTS"

====
